---- MODULE Spec2Model ----
(***************************************************************************)
(* The comment-like toggle of src/app/api/like-comment/route.ts (POST),    *)
(* run by several concurrent requests against one PostgreSQL store that is *)
(* reached through the Prisma client of src/lib/prisma.ts.                 *)
(*                                                                         *)
(* The committed store is (commentLike, engagementScore, notification).    *)
(* A request inside prisma.$transaction buffers its writes (wLike, wScore, *)
(* wNotif) and holds the row locks they imply until it commits or rolls    *)
(* back; other requests read committed rows only (the client sets no       *)
(* isolation level, so the store's default, read committed, applies).      *)
(***************************************************************************)
EXTENDS Integers, Sequences, FiniteSets, TLC

\* ---------------------------------------------------------------- bounds
MaxRequests == 2
MaxStoreFaults == 1
MaxMailCalls == 2
MaxEvaluations == 3
InitEngagementScore == 5

\* ------------------------------------------------------- program constants
ENGAGEMENT_SCORES_COMMENT_LIKE == 1

\* ------------------------------------------------------------- the domain
Requests == 1 .. MaxRequests
Users == {"u1", "u2"}
Posts == {"p1", "p2"}
Null == "null"

\* The Comment table: immutable for this operation.
CommentTable ==
  [c \in {"c1", "c2"} |->
     IF c = "c1" THEN [id |-> "c1", postId |-> "p1", authorId |-> "u1"]
                 ELSE [id |-> "c2", postId |-> "p1", authorId |-> "u2"]]

Comments == DOMAIN CommentTable
LikeKeys == Comments \X Users

\* What req.json() can yield as the body's commentId.
BadJson == "badjson"
Bodies == {BadJson, Null, "", "c1", "c2", "cX"}

\* What getAuthenticatedUserId() can yield.
AuthThrows == "throws"
AuthResults == Users \cup {Null, AuthThrows}

\* Before req.json() and getAuthenticatedUserId() have been called.
Unread == "unread"
Uncalled == "uncalled"

VARIABLES
  commentLike,      \* [LikeKeys -> Nat]: number of CommentLike rows per key
  engagementScore,  \* [Posts -> Int]: Post.engagementScore
  notification,     \* sequence of Notification rows, in creation order
  pc,               \* each request's position in POST
  commentId,        \* the request's commentId
  userId,           \* the authenticated user of the request
  existingLike,     \* what tx.commentLike.findUnique returned (a row or not)
  liked,            \* the local `liked`
  likeCount,        \* the local `likeCount`
  wLike,            \* the transaction's uncommitted CommentLike write
  wScore,           \* the transaction's uncommitted engagementScore value
  wNotif,           \* the transaction's uncommitted Notification rows
  status,           \* the HTTP status of the response, 0 while there is none
  error,            \* the error the handler caught
  faults,           \* store failures not caused by this handler, so far
  initialLike,      \* the CommentLike table before the first request
  readAt,           \* how many transactions had committed when the request
                    \* looked up its CommentLike row
  history,          \* the committed transactions, in commit order
  body,             \* what req.json() yielded for the request
  auth,             \* what getAuthenticatedUserId() yielded for the request
  txOpened,         \* how often the request called prisma.$transaction
  tx,               \* the request's transaction: none, open, committed,
                    \* rolledBack
  responses,        \* how many responses the request has produced
  mail,             \* the running call of sendEmail / sendNodeMailerEmail
  mod               \* the process that evaluates the lib/prisma module

vars == <<commentLike, engagementScore, notification, pc, commentId, userId,
          existingLike, liked, likeCount, wLike, wScore, wNotif, status,
          error, faults, initialLike, readAt, history, body, auth, txOpened,
          tx, responses, mail, mod>>

store == <<commentLike, engagementScore, notification>>
locals == <<commentId, userId, existingLike, liked, likeCount>>
ghosts == <<initialLike, readAt>>
calls == <<body, auth, txOpened>>
aside == <<mail, mod>>
toggle == <<store, pc, locals, wLike, wScore, wNotif, status, error, faults,
            ghosts, history, calls, tx, responses>>

\* ------------------------------------------------------------ the store
\* The rows a store query sees: committed rows only.
RECURSIVE SumOver(_, _)
SumOver(f, S) ==
  IF S = {} THEN 0
  ELSE LET x == CHOOSE y \in S : TRUE IN f[x] + SumOver(f, S \ {x})

\* tx.comment.findUnique({ where: { id } }) found a row.
CommentExists(id) == id \in Comments

\* tx.commentLike.findUnique({ where: { commentId_userId } }) found a row.
FindUniqueCommentLike(c, u) == commentLike[<<c, u>>] > 0

\* The CommentLike rows of comment c in a table.
RowsOfComment(table, c) == SumOver([u \in Users |-> table[<<c, u>>]], Users)

\* The CommentLike rows of all comments of post p in a table.
RowsOfPost(table, p) ==
  SumOver([c \in Comments |->
             IF CommentTable[c].postId = p THEN RowsOfComment(table, c) ELSE 0],
          Comments)

\* The change of the request's own uncommitted CommentLike write.
OwnDelta(r) ==
  IF wLike[r] = "create" THEN 1 ELSE IF wLike[r] = "delete" THEN -1 ELSE 0

\* tx.commentLike.count({ where: { commentId } }): committed rows plus the
\* transaction's own write.
StaleCount(r) == RowsOfComment(commentLike, commentId[r])
CountCommentLike(r) == RowsOfComment(commentLike, commentId[r]) + OwnDelta(r)

\* Another open transaction holds an uncommitted write on CommentLike (c, u):
\* a write of the same key waits for it.
NoRowLock(r, c, u) == FALSE
RowLockedByOther(r, c, u) ==
  \E o \in Requests \ {r} :
    wLike[o] # "none" /\ commentId[o] = c /\ userId[o] = u

\* Another open transaction holds an uncommitted update of post p: an update
\* of the same row waits for it and then works on the committed value.
NoPostLock(r, p) == FALSE
PostLockedByOther(r, p) ==
  \E o \in Requests \ {r} :
    wScore[o] # <<>> /\ CommentTable[commentId[o]].postId = p

\* The unique constraint behind commentId_userId rejects a second row.
NoUniqueConstraint(c, u) == FALSE
UniqueViolation(c, u) == commentLike[<<c, u>>] > 0

\* `if (existingLike)`: the branch of the toggle.
AlwaysLike(existing) == FALSE
UnlikeBranch(existing) == existing

\* `if (comment.authorId !== userId)`.
AlwaysNotify(r) == TRUE
NotSelfLike(r) == CommentTable[commentId[r]].authorId # userId[r]

\* The Notification row of tx.notification.create.
NotificationRow(r) ==
  [userId |-> CommentTable[commentId[r]].authorId,
   message |-> "Your comment received a new like.",
   type |-> "COMMENT_LIKE",
   commentId |-> CommentTable[commentId[r]].id,
   actorId |-> userId[r]]

\* The store with the transaction's buffered writes applied.
WrittenStoreClearsNotifications(r) ==
  <<IF wLike[r] = "none" THEN commentLike
    ELSE [commentLike EXCEPT ![<<commentId[r], userId[r]>>] = @ + OwnDelta(r)],
    IF wScore[r] = <<>> THEN engagementScore
    ELSE [engagementScore EXCEPT
            ![CommentTable[commentId[r]].postId] = wScore[r][1]],
    IF wLike[r] = "delete" THEN <<>> ELSE notification \o wNotif[r]>>
WrittenStoreAllPosts(r) ==
  <<IF wLike[r] = "none" THEN commentLike
    ELSE [commentLike EXCEPT ![<<commentId[r], userId[r]>>] = @ + OwnDelta(r)],
    IF wScore[r] = <<>> THEN engagementScore
    ELSE [p \in Posts |-> engagementScore[p] + OwnDelta(r)],
    notification \o wNotif[r]>>
WrittenStore(r) ==
  <<IF wLike[r] = "none" THEN commentLike
    ELSE [commentLike EXCEPT ![<<commentId[r], userId[r]>>] = @ + OwnDelta(r)],
    IF wScore[r] = <<>> THEN engagementScore
    ELSE [engagementScore EXCEPT
            ![CommentTable[commentId[r]].postId] = wScore[r][1]],
    notification \o wNotif[r]>>

\* The store after the transaction callback threw: nothing of it remains.
PartialStore(r) == WrittenStore(r)
RolledBackStore(r) == store

\* The catch block: the status of the response to a caught error (0: no
\* response, the error leaves the handler).
RethrowUnknown(e) ==
  IF e \in {"COMMENT_NOT_FOUND", "P2025"} THEN 404
  ELSE IF e = "P2003" THEN 400
  ELSE 0
InvalidReferenceAsInternal(e) ==
  IF e \in {"COMMENT_NOT_FOUND", "P2025"} THEN 404 ELSE 500
NotFoundAsInternal(e) ==
  IF e = "P2025" THEN 404 ELSE IF e = "P2003" THEN 400 ELSE 500
StatusOf(e) ==
  IF e = "COMMENT_NOT_FOUND" THEN 404
  ELSE IF e = "P2025" THEN 404
  ELSE IF e = "P2003" THEN 400
  ELSE 500

\* `if (!commentId)`: a missing or empty commentId is falsy.
EmptyIdAccepted(b) == b = Null
MissingCommentId(b) == b \in {Null, ""}

\* `if (!userId)`.
AnonymousAccepted(a) == FALSE
Unauthenticated(a) == a = Null

\* The transaction of a request whose callback threw, once
\* prisma.$transaction has rejected.
LeftOpen == "open"
TxAfterThrow == "rolledBack"

TxSteps == {"findComment", "findLike", "delete", "decrement", "create",
            "increment", "notify", "count", "commit"}
InTx(r) == pc[r] \in TxSteps

\* Store error codes a transaction step can fail with for reasons outside
\* this handler (a vanished reference, a lost connection, a timeout).
StoreErrors == {"P2003", "P2025", "OTHER"}

\* ------------------------------------------------------- the mail module
\* sendEmail and sendNodeMailerEmail: one call at a time.
MailFns == {"sendEmail", "sendNodeMailerEmail"}

\* What the provider call can do: succeed, reject with an error that
\* carries the provider's response ({ response: { body: { errors } } }), or
\* reject with an error that carries none (a network failure).
ProviderOutcomes == {"ok", "errorWithResponse", "errorWithoutResponse"}

\* The optional `text` argument.
Texts == {Null, "", "plain"}

\* `text: text || undefined`.
TextOrUndefined(t) == IF t \in {Null, ""} THEN Null ELSE t

\* `(e as any).response.body.errors` can be read.
HasResponseBody(e) == e = "errorWithResponse"

MailIdle ==
  [fn |-> "none", pc |-> "idle", text |-> Null, msgText |-> Null,
   caught |-> "none", logged |-> 0, sent |-> 0, calls |-> 0]

\* A caller invokes sendEmail or sendNodeMailerEmail.
MailCall ==
  /\ mail.pc \in {"idle", "returned", "threw"}
  /\ mail.calls < MaxMailCalls
  /\ \E f \in MailFns, t \in Texts :
       mail' = [mail EXCEPT !.fn = f, !.text = t,
                            !.msgText = TextOrUndefined(t),
                            !.caught = "none", !.calls = @ + 1,
                            !.pc = IF f = "sendEmail" THEN "send"
                                   ELSE "verify"]
  /\ UNCHANGED <<toggle, mod>>

\* sendEmail: `await sgMail.send(msg)`.
SgMailSend ==
  /\ mail.pc = "send"
  /\ \E o \in ProviderOutcomes :
       mail' = IF o = "ok"
               THEN [mail EXCEPT !.pc = "returned", !.sent = @ + 1]
               ELSE [mail EXCEPT !.pc = "catch", !.caught = o]
  /\ UNCHANGED <<toggle, mod>>

\* sendNodeMailerEmail: `await transporter.verify()`.
TransporterVerify ==
  /\ mail.pc = "verify"
  /\ \E o \in ProviderOutcomes :
       mail' = IF o = "ok"
               THEN [mail EXCEPT !.pc = "sendMail"]
               ELSE [mail EXCEPT !.pc = "catch", !.caught = o]
  /\ UNCHANGED <<toggle, mod>>

\* sendNodeMailerEmail: `await transporter.sendMail(...)`.
TransporterSendMail ==
  /\ mail.pc = "sendMail"
  /\ \E o \in ProviderOutcomes :
       mail' = IF o = "ok"
               THEN [mail EXCEPT !.pc = "returned", !.sent = @ + 1]
               ELSE [mail EXCEPT !.pc = "catch", !.caught = o]
  /\ UNCHANGED <<toggle, mod>>

\* The catch blocks: sendEmail logs e.response.body.errors, and reading it
\* from an error without a response throws a TypeError out of the catch
\* block; sendNodeMailerEmail logs the error itself.
MailCatch ==
  /\ mail.pc = "catch"
  /\ mail' = IF mail.fn = "sendEmail" /\ ~HasResponseBody(mail.caught)
             THEN [mail EXCEPT !.pc = "threw"]
             ELSE [mail EXCEPT !.pc = "returned", !.logged = @ + 1]
  /\ UNCHANGED <<toggle, mod>>

\* ----------------------------------------------------- the prisma module
\* process.env.NODE_ENV of the process.
NodeEnvs == {"production", "development", "test"}

\* A process that has not evaluated lib/prisma yet: globalForPrisma.prisma
\* is undefined (0), nothing is constructed, and NODE_ENV has not been read.
ModuleNotEvaluated ==
  [nodeEnv |-> "unread", evaluations |-> 0, globalPrisma |-> 0, prisma |-> 0,
   pools |-> 0, adapters |-> 0, clients |-> 0]

\* The pools constructed once the module has been evaluated again.
PoolOnlyWithClient(reuse) == IF reuse THEN mod.pools ELSE mod.pools + 1
PoolsAfterEvaluation(reuse) == mod.pools + 1

\* One evaluation of lib/prisma: `new Pool`, `new PrismaPg(pool)`,
\* `globalForPrisma.prisma ?? new PrismaClient({adapter})`, and outside
\* production `globalForPrisma.prisma = prisma`. NODE_ENV is the same in
\* every evaluation of one process.
EvaluatePrismaModule ==
  /\ mod.evaluations < MaxEvaluations
  /\ \E env \in NodeEnvs :
       /\ mod.nodeEnv \in {"unread", env}
       /\ LET reuse == mod.globalPrisma # 0
              client == IF reuse THEN mod.globalPrisma ELSE mod.clients + 1
          IN mod' = [mod EXCEPT
                       !.nodeEnv = env,
                       !.evaluations = @ + 1,
                       !.pools = PoolsAfterEvaluation(reuse),
                       !.adapters = @ + 1,
                       !.clients = IF reuse THEN @ ELSE @ + 1,
                       !.prisma = client,
                       !.globalPrisma =
                          IF env # "production" THEN client ELSE @]
  /\ UNCHANGED <<toggle, mail>>

----
Init ==
  /\ commentLike \in [LikeKeys -> {0, 1}]
  /\ initialLike = commentLike
  /\ engagementScore = [p \in Posts |-> InitEngagementScore]
  /\ notification = <<>>
  /\ pc = [r \in Requests |-> "idle"]
  /\ commentId = [r \in Requests |-> Null]
  /\ userId = [r \in Requests |-> Null]
  /\ existingLike = [r \in Requests |-> FALSE]
  /\ liked = [r \in Requests |-> FALSE]
  /\ likeCount = [r \in Requests |-> 0]
  /\ wLike = [r \in Requests |-> "none"]
  /\ wScore = [r \in Requests |-> <<>>]
  /\ wNotif = [r \in Requests |-> <<>>]
  /\ status = [r \in Requests |-> 0]
  /\ error = [r \in Requests |-> "none"]
  /\ faults = 0
  /\ readAt = [r \in Requests |-> 0]
  /\ history = <<>>
  /\ body = [r \in Requests |-> Unread]
  /\ auth = [r \in Requests |-> Uncalled]
  /\ txOpened = [r \in Requests |-> 0]
  /\ tx = [r \in Requests |-> "none"]
  /\ responses = [r \in Requests |-> 0]
  /\ mail = MailIdle
  /\ mod = ModuleNotEvaluated

\* The store becomes s.
SetStore(s) ==
  /\ commentLike' = s[1]
  /\ engagementScore' = s[2]
  /\ notification' = s[3]

\* The response of a request that never opened a transaction.
Respond(r, e, code) ==
  /\ pc' = [pc EXCEPT ![r] = "done"]
  /\ responses' = [responses EXCEPT ![r] = @ + 1]
  /\ status' = [status EXCEPT ![r] = code]
  /\ error' = [error EXCEPT ![r] = e]

\* An error thrown inside the transaction callback: prisma.$transaction
\* rolls back and rethrows, the catch block answers.
Throw(r, e) ==
  /\ SetStore(RolledBackStore(r))
  /\ wLike' = [wLike EXCEPT ![r] = "none"]
  /\ wScore' = [wScore EXCEPT ![r] = <<>>]
  /\ wNotif' = [wNotif EXCEPT ![r] = <<>>]
  /\ tx' = [tx EXCEPT ![r] = TxAfterThrow]
  /\ Respond(r, e, StatusOf(e))
  /\ UNCHANGED <<history, ghosts>>

\* Steps 1 and 2 of POST: parse and validate the body, authenticate; a
\* request that passes both opens the transaction.
Receive(r) ==
  /\ pc[r] = "idle"
  /\ \A o \in Requests : o < r => pc[o] # "idle"
  /\ \E b \in Bodies, a \in AuthResults :
       /\ body' = [body EXCEPT ![r] = b]
       /\ IF b = BadJson
          THEN /\ Respond(r, "OTHER", StatusOf("OTHER"))
               /\ UNCHANGED <<commentId, userId, auth, txOpened, tx>>
          ELSE IF MissingCommentId(b)
          THEN /\ Respond(r, "none", 400)
               /\ commentId' = [commentId EXCEPT ![r] = b]
               /\ UNCHANGED <<userId, auth, txOpened, tx>>
          ELSE /\ commentId' = [commentId EXCEPT ![r] = b]
               /\ auth' = [auth EXCEPT ![r] = a]
               /\ IF a = AuthThrows
                  THEN /\ Respond(r, "OTHER", StatusOf("OTHER"))
                       /\ UNCHANGED <<userId, txOpened, tx>>
                  ELSE IF Unauthenticated(a)
                  THEN /\ Respond(r, "none", 401)
                       /\ UNCHANGED <<userId, txOpened, tx>>
                  ELSE /\ userId' = [userId EXCEPT ![r] = a]
                       /\ txOpened' = [txOpened EXCEPT ![r] = @ + 1]
                       /\ tx' = [tx EXCEPT ![r] = "open"]
                       /\ pc' = [pc EXCEPT ![r] = "findComment"]
                       /\ UNCHANGED <<status, error, responses>>
  /\ UNCHANGED <<store, existingLike, liked, likeCount, wLike, wScore, wNotif,
                 faults, ghosts, history, aside>>

\* tx.comment.findUnique and `if (!comment) throw`.
FindComment(r) ==
  /\ pc[r] = "findComment"
  /\ IF CommentExists(commentId[r])
     THEN /\ pc' = [pc EXCEPT ![r] = "findLike"]
          /\ UNCHANGED <<store, wLike, wScore, wNotif, status, error, tx, responses,
                         history, ghosts>>
     ELSE Throw(r, "COMMENT_NOT_FOUND")
  /\ UNCHANGED <<locals, faults, calls, aside>>

\* tx.commentLike.findUnique and the branch on existingLike.
FindLike(r) ==
  /\ pc[r] = "findLike"
  /\ LET found == FindUniqueCommentLike(commentId[r], userId[r]) IN
       /\ existingLike' = [existingLike EXCEPT ![r] = found]
       /\ readAt' = [readAt EXCEPT ![r] = Len(history)]
       /\ pc' = [pc EXCEPT ![r] =
                   IF UnlikeBranch(found) THEN "delete" ELSE "create"]
  /\ UNCHANGED <<store, commentId, userId, liked, likeCount, wLike, wScore,
                 wNotif, status, error, tx, responses, faults, calls, aside, initialLike, history>>

\* tx.commentLike.delete: waits for a concurrent writer of the row; a row
\* that is gone by then is the store's record-not-found error P2025.
DeleteLike(r) ==
  /\ pc[r] = "delete"
  /\ IF commentLike[<<commentId[r], userId[r]>>] = 0
     THEN Throw(r, "P2025")
     ELSE /\ ~RowLockedByOther(r, commentId[r], userId[r])
          /\ wLike' = [wLike EXCEPT ![r] = "delete"]
          /\ pc' = [pc EXCEPT ![r] = "decrement"]
          /\ UNCHANGED <<store, wScore, wNotif, status, error, tx, responses, history,
                         ghosts>>
  /\ UNCHANGED <<locals, faults, calls, aside>>

\* tx.commentLike.create: waits for a concurrent writer of the key; a
\* committed row of the key is the unique-constraint error P2002.
CreateLike(r) ==
  /\ pc[r] = "create"
  /\ ~RowLockedByOther(r, commentId[r], userId[r])
  /\ IF UniqueViolation(commentId[r], userId[r])
     THEN Throw(r, "P2002")
     ELSE /\ wLike' = [wLike EXCEPT ![r] = "create"]
          /\ pc' = [pc EXCEPT ![r] = "increment"]
          /\ UNCHANGED <<store, wScore, wNotif, status, error, tx, responses, history,
                         ghosts>>
  /\ UNCHANGED <<locals, faults, calls, aside>>

\* tx.post.update({ engagementScore: { decrement } }) and `liked = false`.
DecrementScore(r) ==
  /\ pc[r] = "decrement"
  /\ LET p == CommentTable[commentId[r]].postId IN
       /\ ~PostLockedByOther(r, p)
       /\ wScore' = [wScore EXCEPT ![r] =
                       <<engagementScore[p] - ENGAGEMENT_SCORES_COMMENT_LIKE>>]
  /\ liked' = [liked EXCEPT ![r] = FALSE]
  /\ pc' = [pc EXCEPT ![r] = "count"]
  /\ UNCHANGED <<store, commentId, userId, existingLike, likeCount, wLike,
                 wNotif, status, error, tx, responses, faults, calls, aside, ghosts, history>>

\* tx.post.update({ engagementScore: { increment } }); a self-like skips the
\* notification and sets `liked = true`.
IncrementScore(r) ==
  /\ pc[r] = "increment"
  /\ LET p == CommentTable[commentId[r]].postId IN
       /\ ~PostLockedByOther(r, p)
       /\ wScore' = [wScore EXCEPT ![r] =
                       <<engagementScore[p] + ENGAGEMENT_SCORES_COMMENT_LIKE>>]
  /\ IF NotSelfLike(r)
     THEN /\ pc' = [pc EXCEPT ![r] = "notify"]
          /\ UNCHANGED liked
     ELSE /\ pc' = [pc EXCEPT ![r] = "count"]
          /\ liked' = [liked EXCEPT ![r] = TRUE]
  /\ UNCHANGED <<store, commentId, userId, existingLike, likeCount, wLike,
                 wNotif, status, error, tx, responses, faults, calls, aside, ghosts, history>>

\* tx.notification.create and `liked = true`.
CreateNotification(r) ==
  /\ pc[r] = "notify"
  /\ wNotif' = [wNotif EXCEPT ![r] = <<NotificationRow(r)>>]
  /\ liked' = [liked EXCEPT ![r] = TRUE]
  /\ pc' = [pc EXCEPT ![r] = "count"]
  /\ UNCHANGED <<store, commentId, userId, existingLike, likeCount, wLike,
                 wScore, status, error, tx, responses, faults, calls, aside, ghosts, history>>

\* tx.commentLike.count.
CountLikes(r) ==
  /\ pc[r] = "count"
  /\ likeCount' = [likeCount EXCEPT ![r] = CountCommentLike(r)]
  /\ pc' = [pc EXCEPT ![r] = "commit"]
  /\ UNCHANGED <<store, commentId, userId, existingLike, liked, wLike,
                 wScore, wNotif, status, error, tx, responses, faults, calls, aside, ghosts, history>>

\* The callback returns: the transaction commits and POST answers 200.
Commit(r) ==
  /\ pc[r] = "commit"
  /\ SetStore(WrittenStore(r))
  /\ history' = Append(history,
                       [req |-> r, before |-> store, after |-> WrittenStore(r)])
  /\ wLike' = [wLike EXCEPT ![r] = "none"]
  /\ wScore' = [wScore EXCEPT ![r] = <<>>]
  /\ wNotif' = [wNotif EXCEPT ![r] = <<>>]
  /\ tx' = [tx EXCEPT ![r] = "committed"]
  /\ Respond(r, "none", 200)
  /\ UNCHANGED <<locals, faults, calls, aside, ghosts>>

\* A store call of the open transaction fails for a reason outside the
\* handler.
StoreFault(r) ==
  /\ InTx(r)
  /\ faults < MaxStoreFaults
  /\ faults' = faults + 1
  /\ \E e \in StoreErrors : Throw(r, e)
  /\ UNCHANGED <<locals, calls, aside>>

Next ==
  \E r \in Requests :
    \/ Receive(r)
    \/ FindComment(r)
    \/ FindLike(r)
    \/ DeleteLike(r)
    \/ CreateLike(r)
    \/ DecrementScore(r)
    \/ IncrementScore(r)
    \/ CreateNotification(r)
    \/ CountLikes(r)
    \/ Commit(r)

Spec == Init /\ [][Next]_vars

\* The same requests against a store whose calls can also fail for reasons
\* outside the handler.
NextFaults ==
  \/ Next
  \/ \E r \in Requests : StoreFault(r)

SpecFaults == Init /\ [][NextFaults]_vars

\* The modules beside the handler: the mail functions and the evaluation of
\* lib/prisma.
NextModules ==
  \/ MailCall
  \/ SgMailSend
  \/ TransporterVerify
  \/ TransporterSendMail
  \/ MailCatch
  \/ EvaluatePrismaModule

SpecModules == Init /\ [][NextModules]_vars

----
\* ------------------------------------------------ reading the history
Committed == {history[i].req : i \in DOMAIN history}
KeyOf(r) == <<commentId[r], userId[r]>>
PostOf(r) == CommentTable[commentId[r]].postId
AuthorOf(r) == CommentTable[commentId[r]].authorId
SameKey(a, b) == commentId[a] = commentId[b] /\ userId[a] = userId[b]

\* The committed like and unlike operations on comments of post p.
LikesOn(p) ==
  Cardinality({i \in DOMAIN history :
                 PostOf(history[i].req) = p /\ liked[history[i].req]})
UnlikesOn(p) ==
  Cardinality({i \in DOMAIN history :
                 PostOf(history[i].req) = p /\ ~liked[history[i].req]})

\* C1: two successful toggles by the same user on the same comment that
\* commit one right after the other leave the (comment, user) row, the
\* comment's number of rows and the post's engagementScore as they were
\* before the first, and the second answers with the liked value and the
\* likeCount that held before the first.
C1_DoubleToggleRestores ==
  \A i \in DOMAIN history :
    i + 1 \in DOMAIN history /\ SameKey(history[i].req, history[i + 1].req) =>
      LET a == history[i]
          b == history[i + 1]
          c == commentId[a.req]
          k == KeyOf(a.req)
          p == PostOf(a.req)
      IN /\ b.after[1][k] = a.before[1][k]
         /\ RowsOfComment(b.after[1], c) = RowsOfComment(a.before[1], c)
         /\ b.after[2][p] = a.before[2][p]
         /\ liked[b.req] = (a.before[1][k] > 0)
         /\ likeCount[b.req] = RowsOfComment(a.before[1], c)

\* A like and then an unlike by a user other than the author, back to back,
\* on a comment another user likes too.
C1_Witness ==
  /\ Len(history) = 2
  /\ SameKey(history[1].req, history[2].req)
  /\ liked[history[1].req] /\ ~liked[history[2].req]
  /\ likeCount[history[1].req] = 2 /\ likeCount[history[2].req] = 1
  /\ Len(notification) = 1

\* C2: the likeCount of a 200 response is the number of CommentLike rows of
\* the comment in the store state that the request's own commit produced,
\* whatever other users' toggles on the comment run at the same time.
C2_LikeCountExact ==
  /\ \A i \in DOMAIN history :
       likeCount[history[i].req] =
         RowsOfComment(history[i].after[1], commentId[history[i].req])
  /\ \A r \in Requests : status[r] = 200 <=> r \in Committed

\* Two users' toggles on one comment, both looked up before either
\* committed, both answered 200.
C2_Witness ==
  \E a, b \in Requests :
    /\ a # b /\ commentId[a] = commentId[b] /\ userId[a] # userId[b]
    /\ status[a] = 200 /\ status[b] = 200
    /\ readAt[a] = 0 /\ readAt[b] = 0
    /\ likeCount[a] # likeCount[b]

\* C3: a post's engagementScore minus its initial value is the committed
\* likes minus the committed unlikes on its comments, which is the change
\* of its comments' number of CommentLike rows; and the score only ever
\* moves by +1 together with one row created or by -1 together with one row
\* deleted, on a comment of that post.
C3_ScoreInv ==
  \A p \in Posts :
    /\ engagementScore[p] - InitEngagementScore = LikesOn(p) - UnlikesOn(p)
    /\ engagementScore[p] - InitEngagementScore =
         RowsOfPost(commentLike, p) - RowsOfPost(initialLike, p)

C3_ScoreStep ==
  \A p \in Posts :
    engagementScore'[p] # engagementScore[p] =>
      \E k \in LikeKeys : \E d \in {1, -1} :
        /\ CommentTable[k[1]].postId = p
        /\ engagementScore' = [engagementScore EXCEPT ![p] = @ + d]
        /\ commentLike' = [commentLike EXCEPT ![k] = @ + d]

C3_EngagementScoreTracksLikes == [](C3_ScoreInv) /\ [][C3_ScoreStep]_vars

\* Likes and unlikes on both comments of one post have committed.
C3_Witness ==
  /\ Len(history) = 2
  /\ commentId[history[1].req] # commentId[history[2].req]
  /\ liked[history[1].req] /\ liked[history[2].req]
  /\ engagementScore["p1"] = InitEngagementScore + 2

\* C4: two distinct users toggle the same comment, which neither likes, and
\* no other toggle commits meanwhile; under every interleaving both answer
\* 200 with liked = true, both rows exist afterwards and the post's
\* engagementScore is exactly 2 higher.
C4_ConcurrentLikesBothCount ==
  \A a, b \in Requests :
    ( /\ a # b
      /\ pc[a] = "done" /\ pc[b] = "done"
      /\ commentId[a] \in Comments /\ commentId[b] = commentId[a]
      /\ userId[a] \in Users /\ userId[b] \in Users /\ userId[a] # userId[b]
      /\ initialLike[KeyOf(a)] = 0 /\ initialLike[KeyOf(b)] = 0
      /\ Committed \subseteq {a, b}
      /\ \A o \in Requests \ {a, b} : ~InTx(o) )
    => /\ status[a] = 200 /\ status[b] = 200
       /\ liked[a] /\ liked[b]
       /\ commentLike[KeyOf(a)] = 1 /\ commentLike[KeyOf(b)] = 1
       /\ likeCount[a] + likeCount[b] =
            2 * RowsOfComment(initialLike, commentId[a]) + 3
       /\ engagementScore[PostOf(a)] = InitEngagementScore + 2

\* Both looked up their row before either had committed, and both are done.
C4_Witness ==
  \E a, b \in Requests :
    /\ a # b /\ commentId[a] = commentId[b] /\ userId[a] # userId[b]
    /\ status[a] = 200 /\ status[b] = 200
    /\ liked[a] /\ liked[b]
    /\ readAt[a] = 0 /\ readAt[b] = 0
    /\ engagementScore[PostOf(a)] = InitEngagementScore + 2

\* What a committed toggle of request r makes of store s.
ToggleEffect(s, r) ==
  <<[s[1] EXCEPT ![KeyOf(r)] = IF liked[r] THEN @ + 1 ELSE @ - 1],
    [s[2] EXCEPT ![PostOf(r)] = IF liked[r] THEN @ + 1 ELSE @ - 1],
    IF liked[r] /\ AuthorOf(r) # userId[r]
    THEN Append(s[3], [userId |-> AuthorOf(r),
                       message |-> "Your comment received a new like.",
                       type |-> "COMMENT_LIKE",
                       commentId |-> commentId[r],
                       actorId |-> userId[r]])
    ELSE s[3]>>

\* C5: the committed store changes only by the whole effect of one toggle
\* at once (row, score and, when due, notification), in the step in which
\* that toggle answers 200; a request that ends in a failure, at whatever
\* step, leaves the store as it was.
C5_Step ==
  /\ \A r \in Requests :
       status[r] = 0 /\ status'[r] \notin {0, 200} => store' = store
  /\ store' # store =>
       \E r \in Requests :
         /\ pc[r] = "commit" /\ status'[r] = 200
         /\ store' = ToggleEffect(store, r)

C5_NoPartialEffect == [][C5_Step]_vars

\* A transaction that had written the row and the score was failed by the
\* store.
C5_Witness ==
  \E r \in Requests :
    /\ error[r] \in StoreErrors
    /\ existingLike[r] = FALSE /\ liked[r]
    /\ commentLike = initialLike
    /\ notification = <<>>

\* C6: a committed toggle appends exactly one Notification, to the comment's
\* author, with the requesting user as actor, of type COMMENT_LIKE and
\* naming the comment, if and only if it found no CommentLike row and the
\* author is another user; otherwise it appends none. Nothing else changes
\* the Notification rows.
C6_NotificationIffForeignLike ==
  /\ \A i \in DOMAIN history :
       LET r == history[i].req IN
         history[i].after[3] =
           IF ~existingLike[r] /\ AuthorOf(r) # userId[r]
           THEN history[i].before[3] \o
                  <<[userId |-> AuthorOf(r),
                     message |-> "Your comment received a new like.",
                     type |-> "COMMENT_LIKE",
                     commentId |-> commentId[r],
                     actorId |-> userId[r]]>>
           ELSE history[i].before[3]
  /\ \A i \in DOMAIN history :
       history[i].before[3] =
         IF i = 1 THEN <<>> ELSE history[i - 1].after[3]
  /\ notification =
       IF history = <<>> THEN <<>> ELSE history[Len(history)].after[3]

\* A like of one's own comment and a like by another user have committed.
C6_Witness ==
  /\ Len(history) = 2
  /\ liked[history[1].req] /\ liked[history[2].req]
  /\ AuthorOf(history[1].req) = userId[history[1].req]
  /\ AuthorOf(history[2].req) # userId[history[2].req]
  /\ Len(notification) = 1

\* C7: a toggle that finds the user's CommentLike row takes the unlike
\* path: it never attempts a create, and when it answers 200 it answers
\* liked = false and its commit removed the row.
C7_ExistingLikeMeansUnlike ==
  /\ \A r \in Requests :
       existingLike[r] =>
         /\ pc[r] \notin {"create", "increment", "notify"}
         /\ wLike[r] # "create"
         /\ status[r] = 200 => ~liked[r]
  /\ \A i \in DOMAIN history :
       LET r == history[i].req IN
         existingLike[r] =>
           /\ history[i].before[1][KeyOf(r)] = 1
           /\ history[i].after[1][KeyOf(r)] = 0
  /\ \A k \in LikeKeys : commentLike[k] <= 1

\* A user who likes the comment toggled and got liked = false.
C7_Witness ==
  \E r \in Requests :
    /\ existingLike[r] /\ status[r] = 200 /\ ~liked[r]
    /\ initialLike[KeyOf(r)] = 1 /\ commentLike[KeyOf(r)] = 0

\* C8: there is never more than one committed CommentLike row for a
\* (commentId, userId) pair.
C8_UniqueLikeRow == \A k \in LikeKeys : commentLike[k] \in {0, 1}

\* One request has committed the row while another request of the same
\* pair, which saw no row, is about to create it.
C8_Witness ==
  \E a, b \in Requests :
    /\ a # b /\ SameKey(a, b)
    /\ status[a] = 200 /\ liked[a]
    /\ pc[b] = "create" /\ readAt[b] = 0
    /\ commentLike[KeyOf(a)] = 1

\* C9: of two requests of one pair that both found no row, the one whose
\* create meets the committed row fails closed: it ends with the store's
\* unique-constraint error, answers a failure (HTTP 500), commits nothing,
\* and the like counts once: the score is up by exactly 1, at most one
\* Notification exists and both never answer 200.
C9_DuplicateCreateFailsClosed ==
  /\ \A r \in Requests :
       error[r] = "P2002" =>
         /\ status[r] = 500
         /\ r \notin Committed
         /\ wLike[r] = "none" /\ wScore[r] = <<>> /\ wNotif[r] = <<>>
  /\ \A a, b \in Requests :
       ( /\ a # b /\ SameKey(a, b) /\ commentId[a] \in Comments
         /\ userId[a] \in Users
         /\ pc[a] = "done" /\ pc[b] = "done"
         /\ ~existingLike[a] /\ ~existingLike[b]
         /\ Committed \subseteq {a, b} )
       => /\ ~(status[a] = 200 /\ status[b] = 200)
          /\ commentLike[KeyOf(a)] <= 1
          /\ Len(notification) <= 1
          /\ error[b] = "P2002" =>
               /\ status[a] = 200 /\ liked[a]
               /\ commentLike[KeyOf(a)] = 1
               /\ engagementScore[PostOf(a)] = InitEngagementScore + 1

\* Both found no row; the first committed, the second met its row.
C9_Witness ==
  \E a, b \in Requests :
    /\ a # b /\ SameKey(a, b)
    /\ readAt[a] = 0 /\ readAt[b] = 0
    /\ status[a] = 200 /\ liked[a]
    /\ error[b] = "P2002" /\ status[b] = 500
    /\ Len(notification) = 1
    /\ engagementScore[PostOf(a)] = InitEngagementScore + 1

\* C10: a toggle naming a comment that is not in the store ends with 404,
\* never commits, and no step of it changes CommentLike, engagementScore or
\* Notification rows.
C10_Inv ==
  \A r \in Requests :
    userId[r] \in Users /\ commentId[r] \notin Comments =>
      /\ pc[r] \in {"findComment", "done"}
      /\ r \notin Committed
      /\ wLike[r] = "none" /\ wScore[r] = <<>> /\ wNotif[r] = <<>>
      /\ pc[r] = "done" => status[r] = 404 /\ error[r] = "COMMENT_NOT_FOUND"

C10_Step ==
  \A r \in Requests :
    userId[r] \in Users /\ commentId[r] \notin Comments /\ pc'[r] # pc[r] =>
      store' = store

C10_MissingCommentNotFound == [](C10_Inv) /\ [][C10_Step]_vars

\* A toggle of the unknown comment was answered 404.
C10_Witness ==
  \E r \in Requests :
    /\ commentId[r] = "cX" /\ userId[r] \in Users
    /\ status[r] = 404 /\ error[r] = "COMMENT_NOT_FOUND"
    /\ commentLike = initialLike

\* C11: a request whose body has a missing or empty commentId is answered
\* 400 at once: the identity provider is not called, no transaction is
\* opened, and the step reads and writes nothing of the store.
C11_Inv ==
  \A r \in Requests :
    body[r] \in {Null, ""} =>
      /\ pc[r] = "done" /\ status[r] = 400
      /\ auth[r] = Uncalled /\ userId[r] = Null
      /\ txOpened[r] = 0 /\ tx[r] = "none"
      /\ r \notin Committed
      /\ ~existingLike[r] /\ readAt[r] = 0 /\ likeCount[r] = 0

C11_Step ==
  \A r \in Requests :
    body[r] = Unread /\ body'[r] \in {Null, ""} =>
      /\ store' = store
      /\ <<wLike, wScore, wNotif, history>>' = <<wLike, wScore, wNotif, history>>

C11_MissingCommentIdRejected == [](C11_Inv) /\ [][C11_Step]_vars

\* A body without commentId and a body with an empty one were both
\* answered 400.
C11_Witness ==
  \E a, b \in Requests :
    /\ body[a] = Null /\ body[b] = ""
    /\ status[a] = 400 /\ status[b] = 400

\* C12: a request with a non-empty commentId for which the identity
\* provider resolves no user is answered 401 and opens no transaction; a
\* transaction is only ever opened, and a toggle only ever committed, for
\* the user the identity provider resolved.
C12_Unauthenticated401 ==
  \A r \in Requests :
    /\ body[r] \notin {Unread, BadJson, Null, ""} /\ auth[r] = Null =>
         /\ pc[r] = "done" /\ status[r] = 401
         /\ txOpened[r] = 0 /\ tx[r] = "none"
         /\ r \notin Committed
    /\ txOpened[r] > 0 \/ tx[r] # "none" \/ r \in Committed =>
         userId[r] \in Users /\ auth[r] = userId[r]

\* An unauthenticated toggle of an existing comment was answered 401 while
\* another request had its transaction open.
C12_Witness ==
  \E a, b \in Requests :
    /\ commentId[a] \in Comments /\ auth[a] = Null /\ status[a] = 401
    /\ tx[b] = "open"

\* The steps of a request that has been received.
Advance(r) ==
  \/ FindComment(r)
  \/ FindLike(r)
  \/ DeleteLike(r)
  \/ CreateLike(r)
  \/ DecrementScore(r)
  \/ IncrementScore(r)
  \/ CreateNotification(r)
  \/ CountLikes(r)
  \/ Commit(r)

\* C20: every invocation of POST ends with exactly one response, whose
\* status is 200, 400, 401, 404 or 500; no error leaves the handler
\* unanswered; a body that cannot be parsed and an identity provider that
\* throws give 500 with no transaction opened; and while requests are
\* unanswered at least one of them can take its next step.
C20_OneResponse ==
  /\ \A r \in Requests :
       /\ responses[r] <= 1
       /\ pc[r] = "done" <=> responses[r] = 1
       /\ responses[r] = 1 => status[r] \in {200, 400, 401, 404, 500}
       /\ responses[r] = 0 => status[r] = 0
       /\ body[r] = BadJson =>
            /\ status[r] = 500 /\ auth[r] = Uncalled
            /\ txOpened[r] = 0 /\ tx[r] = "none"
       /\ auth[r] = AuthThrows =>
            status[r] = 500 /\ txOpened[r] = 0 /\ tx[r] = "none"
  /\ (\E r \in Requests : pc[r] \notin {"idle", "done"}) =>
       \E r \in Requests : pc[r] \notin {"idle", "done"} /\ ENABLED Advance(r)

\* One request failed to parse, the other's identity provider threw, and
\* both were answered 500.
C20_Witness ==
  \E a, b \in Requests :
    /\ body[a] = BadJson /\ status[a] = 500 /\ responses[a] = 1
    /\ auth[b] = AuthThrows /\ status[b] = 500 /\ responses[b] = 1

\* C14: a store failure inside the transaction is answered by its error
\* code: P2003 with 400, P2025 with 404, any other failure with 500; and
\* the step in which the transaction fails leaves the store as it was, with
\* none of the transaction's writes.
C14_Inv ==
  \A r \in Requests :
    tx[r] = "rolledBack" /\ error[r] # "COMMENT_NOT_FOUND" =>
      /\ pc[r] = "done"
      /\ error[r] \in {"P2003", "P2025", "P2002", "OTHER"}
      /\ error[r] = "P2003" => status[r] = 400
      /\ error[r] = "P2025" => status[r] = 404
      /\ error[r] \in {"P2002", "OTHER"} => status[r] = 500
      /\ r \notin Committed
      /\ wLike[r] = "none" /\ wScore[r] = <<>> /\ wNotif[r] = <<>>

C14_Step ==
  \A r \in Requests :
    tx[r] = "open" /\ tx'[r] = "rolledBack" => store' = store

C14_StoreErrorMapping == [](C14_Inv) /\ [][C14_Step]_vars

\* A like that had written its row, the score and the notification was
\* failed by the store with P2003 and answered 400.
C14_Witness ==
  \E r \in Requests :
    /\ error[r] = "P2003" /\ status[r] = 400
    /\ ~existingLike[r] /\ liked[r] /\ AuthorOf(r) # userId[r]
    /\ commentLike = initialLike /\ notification = <<>>
    /\ engagementScore[PostOf(r)] = InitEngagementScore

\* C15: a request has no response while its transaction is open: the
\* transaction is committed or rolled back, with its locks released, by the
\* time the response exists, on every exit path; a request opens at most
\* one transaction, and a closed transaction is never opened again.
C15_Inv ==
  \A r \in Requests :
    /\ txOpened[r] <= 1
    /\ tx[r] = "open" <=> InTx(r)
    /\ status[r] # 0 \/ responses[r] > 0 =>
         /\ tx[r] # "open"
         /\ wLike[r] = "none" /\ wScore[r] = <<>> /\ wNotif[r] = <<>>
    /\ tx[r] = "committed" <=> status[r] = 200
    /\ tx[r] # "none" <=> txOpened[r] = 1

C15_Step ==
  \A r \in Requests :
    tx[r] \in {"committed", "rolledBack"} =>
      tx'[r] = tx[r] /\ txOpened'[r] = txOpened[r]

C15_TransactionClosedBeforeResponse == [](C15_Inv) /\ [][C15_Step]_vars

\* The three exits: one request committed, the other was rolled back by a
\* store error after its writes; or by the missing comment.
C15_Witness ==
  \E a, b \in Requests :
    /\ tx[a] = "committed" /\ status[a] = 200
    /\ tx[b] = "rolledBack" /\ error[b] \in StoreErrors /\ liked[b]

\* C16: Notification rows are append-only: every step leaves the existing
\* rows in place and adds at most one; their number is the number of
\* committed toggles that took the like path for a user other than the
\* comment's author, so an unlike removes none.
C16_Inv ==
  Len(notification) =
    Cardinality({i \in DOMAIN history :
                   /\ liked[history[i].req]
                   /\ AuthorOf(history[i].req) # userId[history[i].req]})

C16_Step ==
  /\ Len(notification') \in {Len(notification), Len(notification) + 1}
  /\ \A i \in DOMAIN notification : notification'[i] = notification[i]

C16_NotificationsAppendOnly == [](C16_Inv) /\ [][C16_Step]_vars

\* A user liked another user's comment and then unliked it: the
\* notification of the like is still there.
C16_Witness ==
  /\ Len(history) = 2
  /\ SameKey(history[1].req, history[2].req)
  /\ liked[history[1].req] /\ ~liked[history[2].req]
  /\ Len(history[1].after[3]) = 1
  /\ notification = history[1].after[3]

\* C18: a request is answered 404 only if its comment (or the comment's
\* post) is not in the store.
C18_NotFoundOnlyIfMissing ==
  \A r \in Requests :
    status[r] = 404 =>
      commentId[r] \notin Comments \/ PostOf(r) \notin Posts

\* C19: a step of a toggle by user u on comment c leaves every CommentLike
\* row other than (c, u) and the engagementScore of every post other than
\* c's post as they were; row (c, u) changes by at most one row, and at
\* most one Notification is added.
C19_Step ==
  \A r \in Requests :
    pc'[r] # pc[r] =>
      /\ \A k \in LikeKeys :
           k # KeyOf(r) => commentLike'[k] = commentLike[k]
      /\ \A k \in LikeKeys :
           commentLike'[k] - commentLike[k] \in {-1, 0, 1}
      /\ \A p \in Posts :
           engagementScore'[p] # engagementScore[p] =>
             commentId[r] \in Comments /\ p = PostOf(r)
      /\ Len(notification') <= Len(notification) + 1

C19_FrameOfToggle == [][C19_Step]_vars

\* A toggle has committed while other CommentLike rows existed.
C19_Witness ==
  /\ Len(history) >= 1
  /\ \E k \in LikeKeys :
       /\ k # KeyOf(history[1].req)
       /\ initialLike[k] = 1 /\ commentLike[k] = 1
  /\ commentLike # initialLike
  /\ engagementScore["p2"] = InitEngagementScore
  /\ engagementScore["p1"] # InitEngagementScore

\* C13: sendEmail and sendNodeMailerEmail never propagate a delivery
\* failure: no call ends by throwing, whatever the provider call did.
C13_NeverPropagates == mail.pc # "threw"

\* C17: in a non-production process, however often lib/prisma has been
\* evaluated, exactly one store client and one connection pool have been
\* constructed.
C17_OnePoolOneClient ==
  mod.nodeEnv \notin {"unread", "production"} =>
    mod.clients = 1 /\ mod.pools = 1

====
